---------------------------- MODULE Spec2Model ----------------------------
(***************************************************************************)
(* Credential lifecycle of LLMManager (src/main.py): the .env file, the    *)
(* process environment that mirrors it, the file lock that guards writes,  *)
(* and the handlers that validate, persist, verify and roll back a key.    *)
(*                                                                         *)
(* A secret is a sequence of one-character strings.  The callers are the   *)
(* threads of control that may run a handler: the terminal menu coroutine  *)
(* and the handlers started from the background interface thread.          *)
(***************************************************************************)
EXTENDS Naturals, Sequences, FiniteSets, TLC

(***************************************************************************)
(* Values                                                                  *)
(***************************************************************************)

\* os.getenv of a variable that is not set; distinct from the empty string.
None == <<"<None>">>

Empty == <<>>

Whitespace == {" ", "\t", "\n"}

Alnum ==
    {"a","b","c","d","e","f","g","h","i","j","k","l","m","n","o","p","q","r",
     "s","t","u","v","w","x","y","z","A","B","C","D","E","F","G","H","I","J",
     "K","L","M","N","O","P","Q","R","S","T","U","V","W","X","Y","Z","0","1",
     "2","3","4","5","6","7","8","9"}

GooglePrefix == <<"A","I","z","a","S","y">>

OpenAIPrefix == <<"s","k","-">>

AnthropicKeyLen == 40

\* The secrets the model draws its inputs and initial stores from.
GoogleOld == GooglePrefix \o <<"_","o","l","d">>

GoogleNew == GooglePrefix \o <<"_","n","e","w">>

OpenAIKey == OpenAIPrefix \o <<"1">>

AnthropicKey == [i \in 1..AnthropicKeyLen |-> "a"]

AnthropicOther == [i \in 1..AnthropicKeyLen |-> "b"]

BadKey == <<"b","a","d","-","f","o","r","m","a","t">>

PaddedGoogleNew == <<" ">> \o GoogleNew \o <<" ">>

\* Truthy with the empty string taken for a key (only None is caught)
Truthy_none_only(key) == key # None

\* python: bool(key) for an Optional[str]
Truthy(key) == key # None /\ key # Empty

\* python: str.startswith
StartsWith(s, prefix) ==
    /\ Len(s) >= Len(prefix)
    /\ SubSeq(s, 1, Len(prefix)) = prefix

\* python: str.isalnum (false on the empty string)
IsAlnum(s) == Len(s) > 0 /\ \A i \in 1..Len(s) : s[i] \in Alnum

\* python: str.strip
RECURSIVE LStrip(_)
LStrip(s) ==
    IF Len(s) > 0 /\ s[1] \in Whitespace THEN LStrip(Tail(s)) ELSE s

RECURSIVE RStrip(_)
RStrip(s) ==
    IF Len(s) > 0 /\ s[Len(s)] \in Whitespace
    THEN RStrip(SubSeq(s, 1, Len(s) - 1))
    ELSE s

Strip(s) == RStrip(LStrip(s))

\* Contains that is content with any non-empty answer
Contains_nonempty(s, sub) == Len(s) > 0

\* python: sub in s
Contains(s, sub) ==
    \E i \in 1..(Len(s) + 1) :
        /\ i + Len(sub) - 1 <= Len(s)
        /\ SubSeq(s, i, i + Len(sub) - 1) = sub

(***************************************************************************)
(* The provider registry                                                   *)
(***************************************************************************)

MODELS ==
    [id \in {"1", "2", "3"} |->
        CASE id = "1" -> [name |-> "Gemini", provider |-> "Google",
                          key_env |-> "GOOGLE_API_KEY"]
          [] id = "2" -> [name |-> "Claude", provider |-> "Anthropic",
                          key_env |-> "ANTHROPIC_API_KEY"]
          [] id = "3" -> [name |-> "GPT-4", provider |-> "OpenAI",
                          key_env |-> "OPENAI_API_KEY"]]

ModelIds == DOMAIN MODELS

\* iteration order of MODELS.items()
ModelOrder == <<"1", "2", "3">>

KeyEnvs == {MODELS[id].key_env : id \in ModelIds}

\* _validate_key_format that only asks for a non-empty key
_validate_key_format_nonempty(provider, key) == key # None /\ key # Empty

_validate_key_format(provider, key) ==
    IF ~Truthy(key) THEN FALSE
    ELSE IF provider = "Google" THEN StartsWith(key, GooglePrefix)
    ELSE IF provider = "OpenAI" THEN StartsWith(key, OpenAIPrefix)
    ELSE IF provider = "Anthropic"
         THEN Len(key) = AnthropicKeyLen /\ IsAlnum(key)
    ELSE FALSE

_get_provider(key_env) ==
    IF \E id \in ModelIds : MODELS[id].key_env = key_env
    THEN MODELS[CHOOSE id \in ModelIds : MODELS[id].key_env = key_env].provider
    ELSE "<None>"

(***************************************************************************)
(* The store: the .env file and os.environ                                 *)
(***************************************************************************)

NoKeys == [k \in KeyEnvs |-> None]

\* set_key that writes the file anew with the one key in it
set_key_clobber(f, key_env, value) == [NoKeys EXCEPT ![key_env] = value]

\* set_key whose write is cut short by one character
set_key_truncated(f, key_env, value) ==
    [f EXCEPT ![key_env] =
        IF Len(value) > 0 THEN SubSeq(value, 1, Len(value) - 1) ELSE value]

\* dotenv.set_key: rewrite the file read as f with key_env set to value
set_key(f, key_env, value) == [f EXCEPT ![key_env] = value]

\* load_dotenv(dotenv_path): a variable already in the environment is kept
load_dotenv(e, f) ==
    [k \in KeyEnvs |-> IF e[k] # None THEN e[k] ELSE f[k]]

\* load_dotenv_override with override=True forgotten
load_dotenv_no_override(e, f) ==
    [k \in KeyEnvs |-> IF e[k] # None THEN e[k] ELSE f[k]]

\* load_dotenv(dotenv_path, override=True): every key of the file replaces
\* the environment's value; a key not in the file is left alone
load_dotenv_override(e, f) ==
    [k \in KeyEnvs |-> IF f[k] # None THEN f[k] ELSE e[k]]

check_api_key(e, model_id) ==
    IF model_id \notin ModelIds THEN FALSE
    ELSE IF ~Truthy(e[MODELS[model_id].key_env]) THEN FALSE
    ELSE _validate_key_format(MODELS[model_id].provider,
                              e[MODELS[model_id].key_env])

\* how many characters _mask_key shows of each end of a key
MaskLen == 4

NotSet == <<"N","o","t"," ","s","e","t">>

Ellipsis == <<".",".",".">>

\* python: key[:n]
FirstChars(key, n) == SubSeq(key, 1, IF Len(key) < n THEN Len(key) ELSE n)

\* python: key[-n:]
LastChars(key, n) ==
    SubSeq(key, IF Len(key) < n THEN 1 ELSE Len(key) - n + 1, Len(key))

\* what is displayed of a key
_mask_key(key) ==
    IF ~Truthy(key) THEN NotSet
    ELSE FirstChars(key, MaskLen) \o Ellipsis \o LastChars(key, MaskLen)

\* the value _revert_key_safely writes back
RevertValue(key_env, old_key) ==
    IF Truthy(old_key) /\ _validate_key_format(_get_provider(key_env), old_key)
    THEN old_key
    ELSE Empty

(***************************************************************************)
(* Inputs and initial stores                                               *)
(***************************************************************************)

\* how many callers there are
NumCallers == 2

Callers == 1..NumCallers

\* lock value when nobody holds the lock
Free == 0

\* what a caller may type as a model number ("9" is not registered)
InputIds == {"1", "3", "9"}

\* what a caller may type as a new key, before input().strip()
RawKeys == {Empty, GoogleNew, PaddedGoogleNew, BadKey, OpenAIKey}

\* values handed directly to _update_env_safely
SetValues == {Empty, PaddedGoogleNew}

Confirmations == {"yes", "no"}

\* response.content of the probe
RespOK == <<"O","K">>

RespLong == <<"N","O","T"," ","O","K">>

RespOther == <<"N","o">>

Responses == {RespOK, RespLong, RespOther}

ExpectedToken == <<"O","K">>

InitFiles ==
    { NoKeys,
      [NoKeys EXCEPT !["GOOGLE_API_KEY"] = GoogleOld],
      [NoKeys EXCEPT !["GOOGLE_API_KEY"] = BadKey],
      [NoKeys EXCEPT !["GOOGLE_API_KEY"] = GoogleOld,
                     !["ANTHROPIC_API_KEY"] = AnthropicKey] }

\* the environment the process was started with
InitProcEnvs ==
    { NoKeys,
      [NoKeys EXCEPT !["GOOGLE_API_KEY"] = GoogleNew],
      [NoKeys EXCEPT !["ANTHROPIC_API_KEY"] = AnthropicOther] }

(***************************************************************************)
(* State                                                                   *)
(***************************************************************************)

VARIABLES
    file,     \* the .env file: key name -> value, None when the key is absent
    env,      \* os.environ restricted to the registry's key names
    lock,     \* holder of LLMManager._env_lock, Free when not held
    active,   \* the callers that run handlers
    menu,     \* what the callers may type: model numbers and keys
    pc,       \* each caller's position
    stack,    \* each caller's return addresses
    loc,      \* each caller's local variables
    obs,      \* bookkeeping of each caller's current handler
    browser,  \* BrowserAutomation.browser: a handle, NoHandle when None
    context,  \* BrowserAutomation.context: a handle, NoHandle when None
    init_lock,\* holder of BrowserAutomation._init_lock, Free when not held
    thread,   \* the thread, with its event loop, each caller runs on
    sloc,     \* each caller's local variables in the session's methods
    ses       \* bookkeeping of the session: what was built and closed

\* the automation session
svars == <<browser, context, init_lock, thread, sloc, ses>>

vars == <<file, env, lock, active, menu, pc, stack, loc, obs, svars>>

NoStatus == [id \in ModelIds |-> "-"]

BlankLoc ==
    [ op |-> "-", model_id |-> "-", new_key |-> None, current_key |-> None,
      confirm |-> "-", outcome |-> "-",
      key_env |-> "-", value |-> None, fsnap |-> NoKeys, ue_ret |-> "-",
      vid |-> "-", api_key |-> None, vret |-> "-", message |-> "-",
      resp |-> None, nconstruct |-> 0, nprobe |-> 0,
      idx |-> 0, statuses |-> NoStatus, results |-> NoStatus,
      shown |-> None ]

BlankObs ==
    [ pre_env |-> NoKeys, pre_file |-> NoKeys,
      nwrites |-> 0, nprobes |-> 0, nlisting |-> 0 ]

Bool(b) == IF b THEN "True" ELSE "False"

\* self.browser = None, self.context = None
NoHandle == 0

BlankSLoc ==
    [ op |-> "-", model_id |-> "-", exc |-> "-", caught |-> "-",
      b0 |-> NoHandle, c0 |-> NoHandle, k0 |-> 0, busy0 |-> FALSE,
      n0 |-> 0, alone0 |-> FALSE,
      nbuilt |-> 0,
      parent |-> NoHandle, closing |-> NoHandle, tried |-> <<>>,
      api_key |-> None, agent |-> "-", abrowser |-> NoHandle,
      acontext |-> NoHandle, ran |-> "-" ]

BlankSes ==
    [ nbrowser |-> 0, ncontext |-> 0, ncalls |-> 0, ncleanup |-> 0,
      closed |-> {}, owner |-> <<>> ]

\* BrowserAutomation.__init__
InitSession ==
    /\ browser = NoHandle
    /\ context = NoHandle
    /\ init_lock = Free
    /\ sloc = [c \in Callers |-> BlankSLoc]
    /\ ses = BlankSes

\* every caller on a thread of its own
OwnThreads == [c \in Callers |-> c]

\* all callers are coroutines of one event loop
OneLoop == [c \in Callers |-> 1]

InitStore ==
    /\ file \in InitFiles
    /\ \E procenv \in InitProcEnvs : env = load_dotenv(procenv, file)
    /\ lock = Free
    /\ pc = [c \in Callers |-> "idle"]
    /\ stack = [c \in Callers |-> <<>>]
    /\ loc = [c \in Callers |-> BlankLoc]
    /\ obs = [c \in Callers |-> BlankObs]
    /\ InitSession

\* one caller runs handlers one after another
Init ==
    /\ InitStore
    /\ active = {1}
    /\ menu = [ids |-> InputIds, keys |-> RawKeys]
    /\ thread = OwnThreads

\* keys typed by the concurrent callers
ConcKeys == {GoogleNew, GoogleOld, OpenAIKey}

\* every caller runs one add_update_api_key, all at the same time
InitConc ==
    /\ InitStore
    /\ file \in {NoKeys, [NoKeys EXCEPT !["GOOGLE_API_KEY"] = GoogleOld]}
    /\ env = file
    /\ active = Callers
    /\ menu = [ids |-> {"1", "3"}, keys |-> ConcKeys]
    /\ thread = OwnThreads

(***************************************************************************)
(* Calls and returns                                                       *)
(***************************************************************************)

Locals(c, l) == loc' = [loc EXCEPT ![c] = l]

Goto(c, label) == pc' = [pc EXCEPT ![c] = label]

Push(c, label) == stack' = [stack EXCEPT ![c] = <<label>> \o @]

\* return to the caller's return address
Return(c) ==
    /\ pc' = [pc EXCEPT ![c] = Head(stack[c])]
    /\ stack' = [stack EXCEPT ![c] = Tail(@)]

\* the handler ends; its locals stay readable until the caller goes on
Done(c) == Goto(c, "done")

\* the frame of a call of _update_env_safely(key_env, new_key)
CallUpdateEnv(l, key_env, new_key) ==
    [l EXCEPT !.key_env = key_env, !.value = new_key, !.fsnap = NoKeys,
              !.ue_ret = "-"]

\* the frame of a call of verify_api_key(model_id)
CallVerify(l, model_id) ==
    [l EXCEPT !.vid = model_id, !.api_key = None, !.vret = "-",
              !.message = "-", !.resp = None, !.nconstruct = 0, !.nprobe = 0]

\* the frame of a call of list_models()
CallListModels(l) ==
    [l EXCEPT !.idx = 1, !.statuses = NoStatus, !.results = NoStatus]

InListing(c) == Len(stack[c]) > 0 /\ Head(stack[c]) = "lm_got"

\* one more call of _update_env_safely by the handler of c
CountWrite(c) == obs' = [obs EXCEPT ![c].nwrites = @ + 1]

\* one more probe request by the handler of c
CountProbe(c) ==
    obs' = [obs EXCEPT ![c].nprobes = @ + 1,
                       ![c].nlisting = IF InListing(c) THEN @ + 1 ELSE @]

\* the locals l once verify_api_key(l.vid) has returned ret: what each call
\* made since the status listing began has returned is kept
NoteVerify(l, ret) ==
    IF l.vid \in ModelIds THEN [l EXCEPT !.results[l.vid] = ret] ELSE l

(***************************************************************************)
(* _update_env_safely                                                      *)
(***************************************************************************)

\* with cls._env_lock: blocks until the lock is free
ue_acquire(c) ==
    /\ pc[c] = "ue_acquire"
    /\ lock = Free
    /\ lock' = c
    /\ Goto(c, "ue_read")
    /\ UNCHANGED <<file, env, active, menu, svars, stack, loc, obs>>

\* set_key reads the whole file
ue_read(c) ==
    /\ pc[c] = "ue_read"
    /\ Locals(c, [loc[c] EXCEPT !.fsnap = file])
    /\ Goto(c, "ue_write")
    /\ UNCHANGED <<file, env, lock, active, menu, svars, stack, obs>>

\* set_key replaces the file by what it read with the key set to the
\* stripped value, or raises and leaves the file as it is
ue_write(c) ==
    /\ pc[c] = "ue_write"
    /\ \/ /\ file' = set_key(loc[c].fsnap, loc[c].key_env, Strip(loc[c].value))
          /\ Goto(c, "ue_load")
          /\ UNCHANGED loc
       \/ /\ Locals(c, [loc[c] EXCEPT !.ue_ret = "False"])
          /\ Goto(c, "ue_release")
          /\ UNCHANGED file
    /\ UNCHANGED <<env, lock, active, menu, svars, stack, obs>>

\* load_dotenv(dotenv_path, override=True), or it raises
ue_load(c) ==
    /\ pc[c] = "ue_load"
    /\ \/ /\ env' = load_dotenv_override(env, file)
          /\ Locals(c, [loc[c] EXCEPT !.ue_ret = "True"])
       \/ /\ Locals(c, [loc[c] EXCEPT !.ue_ret = "False"])
          /\ UNCHANGED env
    /\ Goto(c, "ue_release")
    /\ UNCHANGED <<file, lock, active, menu, svars, stack, obs>>

\* ue_release that keeps the lock when the write failed
ue_release_on_success(c) ==
    /\ pc[c] = "ue_release"
    /\ lock' = IF loc[c].ue_ret = "True" THEN Free ELSE lock
    /\ Return(c)
    /\ UNCHANGED <<file, env, active, menu, svars, loc, obs>>

\* leaving the with block releases the lock on either return
ue_release(c) ==
    /\ pc[c] = "ue_release"
    /\ lock' = Free
    /\ Return(c)
    /\ UNCHANGED <<file, env, active, menu, svars, loc, obs>>

_update_env_safely(c) ==
    \/ ue_acquire(c)
    \/ ue_read(c)
    \/ ue_write(c)
    \/ ue_load(c)
    \/ ue_release(c)

(***************************************************************************)
(* verify_api_key                                                          *)
(***************************************************************************)

\* the lookup, the fail-fast checks, the client construction and the
\* sending of the probe
vk_start(c) ==
    /\ pc[c] = "vk_start"
    /\ LET l == loc[c]
           known == l.vid \in ModelIds
           api_key == IF known THEN env[MODELS[l.vid].key_env] ELSE None
           fail(msg, n) ==
               /\ Locals(c, NoteVerify(
                      [l EXCEPT !.api_key = api_key, !.vret = "False",
                                !.message = msg, !.nconstruct = n], "False"))
               /\ Return(c)
               /\ UNCHANGED obs
       IN  IF ~known THEN fail("ProcessError", 0)
           ELSE IF ~Truthy(api_key) THEN fail("NoKey", 0)
           ELSE IF ~_validate_key_format(MODELS[l.vid].provider, api_key)
                THEN fail("BadFormat", 0)
           ELSE \/ fail("InitError", 1)
                \/ /\ Locals(c, [l EXCEPT !.api_key = api_key,
                                          !.nconstruct = 1, !.nprobe = 1])
                   /\ Goto(c, "vk_wait")
                   /\ CountProbe(c)
                   /\ UNCHANGED stack
    /\ UNCHANGED <<file, env, lock, active, menu, svars>>

\* the probe's answer arrives, or the request raises
vk_wait(c) ==
    /\ pc[c] = "vk_wait"
    /\ \/ \E r \in Responses :
            Locals(c, NoteVerify([loc[c] EXCEPT
                !.resp = r,
                !.vret = Bool(Contains(r, ExpectedToken)),
                !.message = IF Contains(r, ExpectedToken)
                            THEN "Verified" ELSE "Unexpected"],
                Bool(Contains(r, ExpectedToken))))
       \/ Locals(c, NoteVerify([loc[c] EXCEPT !.vret = "False",
                                              !.message = "RequestFailed"],
                               "False"))
    /\ Return(c)
    /\ UNCHANGED <<file, env, lock, active, menu, svars, obs>>

verify_api_key(c) == vk_start(c) \/ vk_wait(c)

(***************************************************************************)
(* list_models                                                             *)
(***************************************************************************)

\* one provider of the loop: verify it if its key is set
lm_iter(c) ==
    /\ pc[c] = "lm_iter"
    /\ loc[c].idx <= Len(ModelOrder)
    /\ LET id == ModelOrder[loc[c].idx]
       IN  IF Truthy(env[MODELS[id].key_env])
           THEN /\ Locals(c, CallVerify(loc[c], id))
                /\ Push(c, "lm_got")
                /\ Goto(c, "vk_start")
           ELSE /\ Locals(c, [loc[c] EXCEPT !.statuses[id] = "False",
                                            !.idx = @ + 1])
                /\ UNCHANGED <<pc, stack>>
    /\ UNCHANGED <<file, env, lock, active, menu, svars, obs>>

\* lm_got that takes every verified provider for usable
lm_got_true(c) ==
    /\ pc[c] = "lm_got"
    /\ Locals(c, [CallVerify(loc[c], "-") EXCEPT
            !.statuses[ModelOrder[loc[c].idx]] = "True",
            !.idx = @ + 1])
    /\ Goto(c, "lm_iter")
    /\ UNCHANGED <<file, env, lock, active, menu, svars, stack, obs>>

\* model_statuses[id] = is_valid
lm_got(c) ==
    /\ pc[c] = "lm_got"
    /\ Locals(c, [CallVerify(loc[c], "-") EXCEPT
            !.statuses[ModelOrder[loc[c].idx]] = loc[c].vret,
            !.idx = @ + 1])
    /\ Goto(c, "lm_iter")
    /\ UNCHANGED <<file, env, lock, active, menu, svars, stack, obs>>

\* return model_statuses
lm_return(c) ==
    /\ pc[c] = "lm_iter"
    /\ loc[c].idx > Len(ModelOrder)
    /\ Return(c)
    /\ UNCHANGED <<file, env, lock, active, menu, svars, loc, obs>>

list_models(c) == lm_iter(c) \/ lm_got(c) \/ lm_return(c)

(***************************************************************************)
(* add_update_api_key and _revert_key_safely                               *)
(***************************************************************************)

\* after the status listing: the model number and the new key are read, the
\* current key is looked up, and a well-formed new key is handed to the store
au_input(c) ==
    /\ pc[c] = "au_input"
    /\ \E model_id \in menu.ids, raw \in menu.keys :
        LET l0 == [CallListModels(loc[c]) EXCEPT !.idx = 0,
                                                 !.model_id = model_id]
            stop(l, outcome) ==
                /\ Locals(c, [l EXCEPT !.outcome = outcome])
                /\ Done(c)
                /\ UNCHANGED <<stack, obs>>
        IN  IF model_id \notin ModelIds THEN stop(l0, "InvalidModel")
            ELSE
              LET model == MODELS[model_id]
                  new_key == Strip(raw)
                  l1 == [l0 EXCEPT !.current_key = env[model.key_env],
                                   !.shown = _mask_key(env[model.key_env]),
                                   !.new_key = new_key]
              IN  IF new_key = Empty THEN stop(l1, "NoChange")
                  ELSE IF ~_validate_key_format(model.provider, new_key)
                       THEN stop(l1, "InvalidFormat")
                  ELSE /\ Locals(c, CallUpdateEnv(l1, model.key_env, new_key))
                       /\ Push(c, "au_written")
                       /\ Goto(c, "ue_acquire")
                       /\ CountWrite(c)
    /\ UNCHANGED <<file, env, lock, active, menu, svars>>

\* if await cls._update_env_safely(...): verify, else report the failure
au_written(c) ==
    /\ pc[c] = "au_written"
    /\ IF loc[c].ue_ret = "True"
       THEN /\ Locals(c, CallVerify(loc[c], loc[c].model_id))
            /\ Push(c, "au_verified")
            /\ Goto(c, "vk_start")
       ELSE /\ Locals(c, [loc[c] EXCEPT !.outcome = "PersistFailed"])
            /\ Done(c)
            /\ UNCHANGED stack
    /\ UNCHANGED <<file, env, lock, active, menu, svars, obs>>

\* au_verified with the test of is_valid inverted
au_verified_inverted(c) ==
    /\ pc[c] = "au_verified"
    /\ IF loc[c].vret = "True"
       THEN /\ Push(c, "au_reverted")
            /\ Goto(c, "rv_start")
            /\ UNCHANGED loc
       ELSE /\ Locals(c, [loc[c] EXCEPT !.outcome = "Committed"])
            /\ Done(c)
            /\ UNCHANGED stack
    /\ UNCHANGED <<file, env, lock, active, menu, svars, obs>>

\* if not is_valid: revert, else the new key stays
au_verified(c) ==
    /\ pc[c] = "au_verified"
    /\ IF loc[c].vret = "False"
       THEN /\ Push(c, "au_reverted")
            /\ Goto(c, "rv_start")
            /\ UNCHANGED loc
       ELSE /\ Locals(c, [loc[c] EXCEPT !.outcome = "Committed"])
            /\ Done(c)
            /\ UNCHANGED stack
    /\ UNCHANGED <<file, env, lock, active, menu, svars, obs>>

\* the old key goes back if it is well-formed, the empty string otherwise
_revert_key_safely(c) ==
    /\ pc[c] = "rv_start"
    /\ LET key_env == MODELS[loc[c].model_id].key_env
       IN  Locals(c, CallUpdateEnv(loc[c], key_env,
                                   RevertValue(key_env, loc[c].current_key)))
    /\ Goto(c, "ue_acquire")
    /\ CountWrite(c)
    /\ UNCHANGED <<file, env, lock, active, menu, svars, stack>>

\* the revert has returned; whether it wrote anything is not looked at
au_reverted(c) ==
    /\ pc[c] = "au_reverted"
    /\ Locals(c, [loc[c] EXCEPT !.outcome = "RolledBack"])
    /\ Done(c)
    /\ UNCHANGED <<file, env, lock, active, menu, svars, stack, obs>>

add_update_api_key(c) ==
    \/ au_input(c)
    \/ au_written(c)
    \/ au_verified(c)
    \/ au_reverted(c)

(***************************************************************************)
(* remove_api_key                                                          *)
(***************************************************************************)

\* after the status listing: the model number is read, and a key that is set
\* is cleared once the caller has answered yes
rm_input(c) ==
    /\ pc[c] = "rm_input"
    /\ \E model_id \in menu.ids, confirm \in Confirmations :
        LET l0 == [CallListModels(loc[c]) EXCEPT !.idx = 0,
                                                 !.model_id = model_id]
            stop(l, outcome) ==
                /\ Locals(c, [l EXCEPT !.outcome = outcome])
                /\ Done(c)
                /\ UNCHANGED <<stack, obs>>
        IN  IF model_id \notin ModelIds THEN stop(l0, "InvalidModel")
            ELSE
              LET key_env == MODELS[model_id].key_env
                  l1 == [l0 EXCEPT !.current_key = env[key_env]]
              IN  IF ~Truthy(env[key_env]) THEN stop(l1, "NotSet")
                  ELSE IF confirm # "yes"
                       THEN stop([l1 EXCEPT !.confirm = confirm], "Cancelled")
                  ELSE /\ Locals(c, CallUpdateEnv(
                                        [l1 EXCEPT !.confirm = confirm],
                                        key_env, Empty))
                       /\ Push(c, "rm_written")
                       /\ Goto(c, "ue_acquire")
                       /\ CountWrite(c)
    /\ UNCHANGED <<file, env, lock, active, menu, svars>>

rm_written(c) ==
    /\ pc[c] = "rm_written"
    /\ Locals(c, [loc[c] EXCEPT !.outcome =
            IF loc[c].ue_ret = "True" THEN "Removed" ELSE "RemoveFailed"])
    /\ Done(c)
    /\ UNCHANGED <<file, env, lock, active, menu, svars, stack, obs>>

remove_api_key(c) == rm_input(c) \/ rm_written(c)

(***************************************************************************)
(* BrowserAutomation: initialize, cleanup, run_task                        *)
(***************************************************************************)

\* how many calls of the session's methods are followed
MaxCalls == 3

\* where a coroutine is suspended, or not running at all; its event loop is
\* then free to run another coroutine
SuspendPoints ==
    {"idle", "done", "vk_wait", "in_ctx_wait", "cl_ctx_wait", "cl_br_wait",
     "rt_agent_wait"}

\* c can take a step: no other coroutine of its event loop is in the middle
\* of one (a coroutine that waits for a threading.Lock is in the middle of
\* a step, and keeps the whole loop waiting)
Runnable(c) ==
    \A d \in Callers \ {c} : thread[d] = thread[c] => pc[d] \in SuspendPoints

SLocals(c, l) == sloc' = [sloc EXCEPT ![c] = l]

\* the frame of a call of one of the session's methods
NewCall(op, model_id) ==
    [BlankSLoc EXCEPT !.op = op, !.model_id = model_id,
                      !.b0 = browser, !.c0 = context,
                      !.k0 = ses.ncleanup,
                      !.busy0 = \E d \in Callers : sloc[d].op = "cleanup",
                      !.n0 = ses.ncalls,
                      !.alone0 = \A d \in Callers : pc[d] = "idle"]

\* in_acquire that does not wait for the lock
in_acquire_nolock(c) ==
    /\ pc[c] = "in_acquire" /\ Runnable(c)
    /\ init_lock' = c
    /\ Goto(c, "in_check")
    /\ UNCHANGED <<file, env, lock, active, menu, stack, loc, obs,
                   browser, context, thread, sloc, ses>>

\* with self._init_lock: blocks the thread until the lock is free
in_acquire(c) ==
    /\ pc[c] = "in_acquire" /\ Runnable(c)
    /\ init_lock = Free
    /\ init_lock' = c
    /\ Goto(c, "in_check")
    /\ UNCHANGED <<file, env, lock, active, menu, stack, loc, obs,
                   browser, context, thread, sloc, ses>>

\* if self.browser and self.context: return
in_check(c) ==
    /\ pc[c] = "in_check" /\ Runnable(c)
    /\ IF browser # NoHandle /\ context # NoHandle
       THEN Goto(c, "in_release")
       ELSE Goto(c, "in_browser")
    /\ UNCHANGED <<file, env, lock, active, menu, stack, loc, obs, svars>>

\* in_browser that constructs a browser whether or not there is one
in_browser_always(c) ==
    /\ pc[c] = "in_browser" /\ Runnable(c)
    /\ browser' = ses.nbrowser + 1
    /\ ses' = [ses EXCEPT !.nbrowser = @ + 1]
    /\ SLocals(c, [sloc[c] EXCEPT !.nbuilt = @ + 1])
    /\ Goto(c, "in_context")
    /\ UNCHANGED <<file, env, lock, active, menu, stack, loc, obs,
                   context, init_lock, thread>>

\* if not self.browser: self.browser = Browser(), which may raise
in_browser(c) ==
    /\ pc[c] = "in_browser" /\ Runnable(c)
    /\ IF browser = NoHandle
       THEN \/ /\ browser' = ses.nbrowser + 1
               /\ ses' = [ses EXCEPT !.nbrowser = @ + 1]
               /\ SLocals(c, [sloc[c] EXCEPT !.nbuilt = @ + 1])
               /\ Goto(c, "in_context")
            \/ /\ SLocals(c, [sloc[c] EXCEPT !.exc = "BrowserError"])
               /\ Goto(c, "in_release")
               /\ UNCHANGED <<browser, ses>>
       ELSE /\ Goto(c, "in_context")
            /\ UNCHANGED <<browser, ses, sloc>>
    /\ UNCHANGED <<file, env, lock, active, menu, stack, loc, obs,
                   context, init_lock, thread>>

\* if not self.context: the call self.browser.new_context() is made and
\* awaited
in_context(c) ==
    /\ pc[c] = "in_context" /\ Runnable(c)
    /\ IF context # NoHandle
       THEN /\ Goto(c, "in_release")
            /\ UNCHANGED sloc
       ELSE IF browser = NoHandle
       THEN /\ SLocals(c, [sloc[c] EXCEPT !.exc = "AttributeError"])
            /\ Goto(c, "in_release")
       ELSE /\ SLocals(c, [sloc[c] EXCEPT !.parent = browser])
            /\ Goto(c, "in_ctx_wait")
    /\ UNCHANGED <<file, env, lock, active, menu, stack, loc, obs,
                   browser, context, init_lock, thread, ses>>

\* new_context() returns and self.context is assigned, or it raises
in_ctx_wait(c) ==
    /\ pc[c] = "in_ctx_wait" /\ Runnable(c)
    /\ \/ /\ context' = ses.ncontext + 1
          /\ ses' = [ses EXCEPT !.ncontext = @ + 1,
                                !.owner = Append(@, sloc[c].parent)]
          /\ SLocals(c, [sloc[c] EXCEPT !.nbuilt = @ + 1])
       \/ /\ SLocals(c, [sloc[c] EXCEPT !.exc = "ContextError"])
          /\ UNCHANGED <<context, ses>>
    /\ Goto(c, "in_release")
    /\ UNCHANGED <<file, env, lock, active, menu, stack, loc, obs,
                   browser, init_lock, thread>>

\* leaving the with block, by return or by the re-raised exception
in_release(c) ==
    /\ pc[c] = "in_release" /\ Runnable(c)
    /\ init_lock' = Free
    /\ Return(c)
    /\ UNCHANGED <<file, env, lock, active, menu, loc, obs,
                   browser, context, thread, sloc, ses>>

initialize(c) ==
    \/ in_acquire(c)
    \/ in_check(c)
    \/ in_browser(c)
    \/ in_context(c)
    \/ in_ctx_wait(c)
    \/ in_release(c)

\* if self.context: await self.context.close()
cl_context(c) ==
    /\ pc[c] = "cl_context" /\ Runnable(c)
    /\ IF context # NoHandle
       THEN /\ SLocals(c, [sloc[c] EXCEPT !.closing = context,
                                          !.tried = Append(@, "context")])
            /\ Goto(c, "cl_ctx_wait")
       ELSE /\ Goto(c, "cl_browser")
            /\ UNCHANGED sloc
    /\ UNCHANGED <<file, env, lock, active, menu, stack, loc, obs,
                   browser, context, init_lock, thread, ses>>

\* cl_ctx_wait with no except clause: the error of close() reaches the caller
cl_ctx_wait_raising(c) ==
    /\ pc[c] = "cl_ctx_wait" /\ Runnable(c)
    /\ \/ /\ context' = NoHandle
          /\ ses' = [ses EXCEPT
                        !.closed = @ \cup {<<"context", sloc[c].closing>>}]
          /\ Goto(c, "cl_browser")
          /\ UNCHANGED <<stack, sloc>>
       \/ /\ SLocals(c, [sloc[c] EXCEPT !.exc = "CloseError"])
          /\ Return(c)
          /\ UNCHANGED <<context, ses>>
    /\ UNCHANGED <<file, env, lock, active, menu, loc, obs,
                   browser, init_lock, thread>>

\* the context is closed and self.context = None, or close() raises and the
\* except clause of cleanup logs it
cl_ctx_wait(c) ==
    /\ pc[c] = "cl_ctx_wait" /\ Runnable(c)
    /\ \/ /\ context' = NoHandle
          /\ ses' = [ses EXCEPT
                        !.closed = @ \cup {<<"context", sloc[c].closing>>}]
          /\ Goto(c, "cl_browser")
          /\ UNCHANGED <<stack, sloc>>
       \/ /\ SLocals(c, [sloc[c] EXCEPT !.caught = "CloseError"])
          /\ Return(c)
          /\ UNCHANGED <<context, ses>>
    /\ UNCHANGED <<file, env, lock, active, menu, loc, obs,
                   browser, init_lock, thread>>

\* if self.browser: await self.browser.close()
cl_browser(c) ==
    /\ pc[c] = "cl_browser" /\ Runnable(c)
    /\ IF browser # NoHandle
       THEN /\ SLocals(c, [sloc[c] EXCEPT !.closing = browser,
                                          !.tried = Append(@, "browser")])
            /\ Goto(c, "cl_br_wait")
            /\ UNCHANGED stack
       ELSE /\ Return(c)
            /\ UNCHANGED sloc
    /\ UNCHANGED <<file, env, lock, active, menu, loc, obs,
                   browser, context, init_lock, thread, ses>>

\* the browser is closed and self.browser = None, or close() raises and the
\* except clause of cleanup logs it
cl_br_wait(c) ==
    /\ pc[c] = "cl_br_wait" /\ Runnable(c)
    /\ \/ /\ browser' = NoHandle
          /\ ses' = [ses EXCEPT
                        !.closed = @ \cup {<<"browser", sloc[c].closing>>}]
          /\ UNCHANGED sloc
       \/ /\ SLocals(c, [sloc[c] EXCEPT !.caught = "CloseError"])
          /\ UNCHANGED <<browser, ses>>
    /\ Return(c)
    /\ UNCHANGED <<file, env, lock, active, menu, loc, obs,
                   context, init_lock, thread>>

cleanup(c) ==
    \/ cl_context(c)
    \/ cl_ctx_wait(c)
    \/ cl_browser(c)
    \/ cl_br_wait(c)

\* get_llm that checks the model number only
get_llm_unchecked(e, model_id) ==
    IF model_id \notin ModelIds THEN "InvalidModel" ELSE "-"

\* LLMManager.get_llm up to the construction of the client: the error it
\* raises on the credential as it is now, "-" when it raises none
get_llm(e, model_id) ==
    IF model_id \notin ModelIds THEN "InvalidModel"
    ELSE IF ~Truthy(e[MODELS[model_id].key_env]) THEN "NoKey"
    ELSE IF ~_validate_key_format(MODELS[model_id].provider,
                                  e[MODELS[model_id].key_env])
         THEN "BadFormat"
    ELSE "-"

\* initialize has returned or raised; then get_llm and Agent(...), and
\* agent.run() is awaited
rt_inited(c) ==
    /\ pc[c] = "rt_inited" /\ Runnable(c)
    /\ LET raise(l, e) ==
               /\ SLocals(c, [l EXCEPT !.exc = e])
               /\ Return(c)
           \* api_key = os.getenv(config["key_env"])
           l1 == IF sloc[c].model_id \in ModelIds
                 THEN [sloc[c] EXCEPT
                          !.api_key = env[MODELS[sloc[c].model_id].key_env]]
                 ELSE sloc[c]
       IN  IF sloc[c].exc # "-"
           THEN /\ Return(c)
                /\ UNCHANGED sloc
           ELSE IF get_llm(env, sloc[c].model_id) # "-"
           THEN raise(l1, get_llm(env, sloc[c].model_id))
           ELSE \/ raise(l1, "ClientError")
                \/ /\ SLocals(c, [l1 EXCEPT !.agent = "created",
                                            !.abrowser = browser,
                                            !.acontext = context])
                   /\ Goto(c, "rt_agent_wait")
                   /\ UNCHANGED stack
    /\ UNCHANGED <<file, env, lock, active, menu, loc, obs,
                   browser, context, init_lock, thread, ses>>

\* rt_agent_wait that drops the context when the run fails
rt_agent_wait_teardown(c) ==
    /\ pc[c] = "rt_agent_wait" /\ Runnable(c)
    /\ \/ /\ SLocals(c, [sloc[c] EXCEPT !.ran = "True"])
          /\ UNCHANGED context
       \/ /\ SLocals(c, [sloc[c] EXCEPT !.exc = "AgentError"])
          /\ context' = NoHandle
    /\ Return(c)
    /\ UNCHANGED <<file, env, lock, active, menu, loc, obs,
                   browser, init_lock, thread, ses>>

\* agent.run() returns and the completion is reported, or it raises
rt_agent_wait(c) ==
    /\ pc[c] = "rt_agent_wait" /\ Runnable(c)
    /\ \/ SLocals(c, [sloc[c] EXCEPT !.ran = "True"])
       \/ SLocals(c, [sloc[c] EXCEPT !.exc = "AgentError"])
    /\ Return(c)
    /\ UNCHANGED <<file, env, lock, active, menu, loc, obs,
                   browser, context, init_lock, thread, ses>>

run_task(c) == rt_inited(c) \/ rt_agent_wait(c)

\* a call of one of the session's methods begins
BeginCall(c, l, label, rets) ==
    /\ pc[c] = "idle" /\ c \in active /\ Runnable(c)
    /\ ses.ncalls < MaxCalls
    /\ SLocals(c, l)
    /\ Goto(c, label)
    /\ stack' = [stack EXCEPT ![c] = rets]
    /\ UNCHANGED <<file, env, lock, active, menu, loc, obs,
                   browser, context, init_lock, thread>>

StartInitialize(c) ==
    /\ BeginCall(c, NewCall("initialize", "-"), "in_acquire", <<"done">>)
    /\ ses' = [ses EXCEPT !.ncalls = @ + 1]

StartCleanup(c) ==
    /\ BeginCall(c, NewCall("cleanup", "-"), "cl_context", <<"done">>)
    /\ ses' = [ses EXCEPT !.ncalls = @ + 1, !.ncleanup = @ + 1]

\* run_task begins with await self.initialize()
StartRunTask(c) ==
    /\ \E model_id \in menu.ids :
        BeginCall(c, NewCall("run_task", model_id), "in_acquire",
                  <<"rt_inited", "done">>)
    /\ ses' = [ses EXCEPT !.ncalls = @ + 1]

\* the method has returned or raised and its caller goes on
EndCall(c) ==
    /\ pc[c] = "done" /\ sloc[c].op # "-"
    /\ Goto(c, "idle")
    /\ SLocals(c, BlankSLoc)
    /\ UNCHANGED <<file, env, lock, active, menu, stack, loc, obs,
                   browser, context, init_lock, thread, ses>>

\* the model numbers passed to run_task ("9" is not registered)
TaskIds == {"1", "9"}

\* a session used by all callers, on threads of their own or as coroutines
\* of one event loop
InitAutomation ==
    /\ InitStore
    /\ file \in {NoKeys, [NoKeys EXCEPT !["GOOGLE_API_KEY"] = GoogleOld],
                 [NoKeys EXCEPT !["GOOGLE_API_KEY"] = BadKey]}
    /\ env = file
    /\ active = Callers
    /\ menu = [ids |-> TaskIds, keys |-> {}]
    /\ thread \in {OwnThreads, OneLoop}

NextAutomation ==
    \E c \in Callers :
        \/ StartInitialize(c)
        \/ StartRunTask(c)
        \/ StartCleanup(c)
        \/ initialize(c)
        \/ cleanup(c)
        \/ run_task(c)
        \/ EndCall(c)

SpecAutomation == InitAutomation /\ [][NextAutomation]_vars

\* a thread that can run does run, and so does a coroutine that its event
\* loop can resume: every step of a method that stays possible is taken,
\* the return of an awaited call included
SpecAutomationFair ==
    /\ SpecAutomation
    /\ \A c \in Callers :
           WF_vars(initialize(c) \/ cleanup(c) \/ run_task(c))

(***************************************************************************)
(* The callers                                                             *)
(***************************************************************************)

Begin(c, l, label, ret) ==
    /\ Locals(c, l)
    /\ Goto(c, label)
    /\ Push(c, ret)
    /\ obs' = [obs EXCEPT ![c] = [BlankObs EXCEPT !.pre_env = env,
                                                  !.pre_file = file]]
    /\ UNCHANGED <<file, env, lock, active, menu, svars>>

StartUpdate(c) ==
    /\ pc[c] = "idle" /\ c \in active
    /\ Begin(c, CallListModels([BlankLoc EXCEPT !.op = "update"]),
             "lm_iter", "au_input")

StartRemove(c) ==
    /\ pc[c] = "idle" /\ c \in active
    /\ Begin(c, CallListModels([BlankLoc EXCEPT !.op = "remove"]),
             "lm_iter", "rm_input")

StartList(c) ==
    /\ pc[c] = "idle" /\ c \in active
    /\ Begin(c, CallListModels([BlankLoc EXCEPT !.op = "list"]),
             "lm_iter", "done")

StartVerify(c) ==
    /\ pc[c] = "idle" /\ c \in active
    /\ \E model_id \in menu.ids :
        Begin(c, CallVerify([BlankLoc EXCEPT !.op = "verify"], model_id),
              "vk_start", "done")

\* a direct call of _update_env_safely(key_env, new_key)
StartSet(c) ==
    /\ pc[c] = "idle" /\ c \in active
    /\ \E key_env \in KeyEnvs, new_key \in SetValues :
        /\ Locals(c, CallUpdateEnv([BlankLoc EXCEPT !.op = "set"],
                                   key_env, new_key))
        /\ Goto(c, "ue_acquire")
        /\ Push(c, "done")
        /\ obs' = [obs EXCEPT ![c] = [BlankObs EXCEPT !.pre_env = env,
                                                      !.pre_file = file,
                                                      !.nwrites = 1]]
        /\ UNCHANGED <<file, env, lock, active, menu, svars>>

\* a direct call of _update_env_safely(key_env, "") that clears the key of
\* one of the models in use
StartClear(c) ==
    /\ pc[c] = "idle" /\ c \in active
    /\ \E model_id \in menu.ids \cap ModelIds :
        /\ Locals(c, CallUpdateEnv([BlankLoc EXCEPT !.op = "set"],
                                   MODELS[model_id].key_env, Empty))
        /\ Goto(c, "ue_acquire")
        /\ Push(c, "done")
        /\ UNCHANGED <<file, env, lock, active, menu, svars, obs>>

\* the handler has returned and the caller goes on
Finish(c) ==
    /\ pc[c] = "done"
    /\ Goto(c, "idle")
    /\ Locals(c, BlankLoc)
    /\ obs' = [obs EXCEPT ![c] = BlankObs]
    /\ UNCHANGED <<file, env, lock, active, menu, svars, stack>>

Next ==
    \E c \in Callers :
        \/ StartUpdate(c)
        \/ StartRemove(c)
        \/ StartList(c)
        \/ StartVerify(c)
        \/ StartSet(c)
        \/ _update_env_safely(c)
        \/ verify_api_key(c)
        \/ list_models(c)
        \/ add_update_api_key(c)
        \/ _revert_key_safely(c)
        \/ remove_api_key(c)
        \/ Finish(c)

Spec == Init /\ [][Next]_vars

\* concurrent updates: each caller starts add_update_api_key once
NextConc ==
    \E c \in Callers :
        \/ StartUpdate(c)
        \/ _update_env_safely(c)
        \/ verify_api_key(c)
        \/ list_models(c)
        \/ add_update_api_key(c)
        \/ _revert_key_safely(c)

SpecConc == InitConc /\ [][NextConc]_vars

(***************************************************************************)
(* main_menu                                                               *)
(***************************************************************************)

\* the caller that runs main_menu, on the main thread
Main == 1

\* where main_menu waits in input()
InputPoints ==
    {"mm_gradio", "mm_menu", "mm_listed", "mm_task", "mm_ran", "mk_choice",
     "au_input", "rm_input"}

\* where main_menu is suspended in an await
AwaitPoints ==
    {"vk_wait", "in_ctx_wait", "rt_agent_wait", "cl_ctx_wait", "cl_br_wait"}

\* main_menu calls a method of the session
MainCall(c, l, label, rets) ==
    /\ SLocals(c, l)
    /\ Goto(c, label)
    /\ stack' = [stack EXCEPT ![c] = rets]

\* the clauses except KeyboardInterrupt and except Exception: the way the
\* loop ends is kept and cleanup is called
MainCleanup(c, how) ==
    /\ Locals(c, [loc[c] EXCEPT !.outcome = how])
    /\ MainCall(c, NewCall("cleanup", "-"), "cl_context", <<"mm_returned">>)
    /\ ses' = [ses EXCEPT !.ncalls = @ + 1, !.ncleanup = @ + 1]

\* the question about the background interface; with y its thread starts
mm_gradio(c) ==
    /\ pc[c] = "mm_gradio"
    /\ \E use_gradio \in {"y", "n"} :
        active' = IF use_gradio = "y" THEN Callers ELSE active
    /\ Goto(c, "mm_menu")
    /\ UNCHANGED <<file, env, lock, menu, stack, loc, obs, svars>>

\* Select action (1-3)
mm_menu(c) ==
    /\ pc[c] = "mm_menu"
    /\ \/ /\ Begin(c, CallListModels([BlankLoc EXCEPT !.op = "task"]),
                   "lm_iter", "mm_listed")
       \/ /\ Goto(c, "mk_loop")
          /\ UNCHANGED <<file, env, lock, active, menu, stack, loc, obs,
                         svars>>
       \/ /\ MainCall(c, NewCall("cleanup", "-"), "cl_context",
                      <<"mm_exit">>)
          /\ Locals(c, [loc[c] EXCEPT !.outcome = "Exit"])
          /\ ses' = [ses EXCEPT !.ncalls = @ + 1, !.ncleanup = @ + 1]
          /\ UNCHANGED <<file, env, lock, active, menu, obs,
                         browser, context, init_lock, thread>>

\* the model number is read and looked up in the statuses just listed
mm_listed(c) ==
    /\ pc[c] = "mm_listed"
    /\ \E model_id \in menu.ids :
        /\ Locals(c, [loc[c] EXCEPT !.model_id = model_id])
        /\ IF model_id \in ModelIds /\ loc[c].statuses[model_id] = "True"
           THEN Goto(c, "mm_task")
           ELSE Goto(c, "mm_menu")
    /\ UNCHANGED <<file, env, lock, active, menu, stack, obs, svars>>

\* the task is read: exit goes back to the menu, a task is run
mm_task(c) ==
    /\ pc[c] = "mm_task"
    /\ \/ /\ Goto(c, "mm_menu")
          /\ UNCHANGED <<stack, svars>>
       \/ /\ ses.ncalls < MaxCalls
          /\ MainCall(c, NewCall("run_task", loc[c].model_id), "in_acquire",
                      <<"rt_inited", "mm_ran">>)
          /\ ses' = [ses EXCEPT !.ncalls = @ + 1]
          /\ UNCHANGED <<browser, context, init_lock, thread>>
    /\ UNCHANGED <<file, env, lock, active, menu, loc, obs>>

\* run_task has returned or raised: an error ends the task loop, and so does
\* any answer but y to the question about another task
mm_ran(c) ==
    /\ pc[c] = "mm_ran"
    /\ IF sloc[c].exc # "-"
       THEN Goto(c, "mm_menu")
       ELSE \E another_task \in {"y", "n"} :
                Goto(c, IF another_task = "y" THEN "mm_task" ELSE "mm_menu")
    /\ SLocals(c, BlankSLoc)
    /\ UNCHANGED <<file, env, lock, active, menu, stack, loc, obs,
                   browser, context, init_lock, thread, ses>>

\* the cleanup of the exit action has returned: break
mm_exit(c) ==
    /\ pc[c] = "mm_exit"
    /\ Goto(c, "mm_returned")
    /\ UNCHANGED <<file, env, lock, active, menu, stack, loc, obs, svars>>

\* manage_api_keys lists the statuses at each turn of its loop
mk_loop(c) ==
    /\ pc[c] = "mk_loop"
    /\ Begin(c, CallListModels([BlankLoc EXCEPT !.op = "manage"]),
             "lm_iter", "mk_choice")

\* Select an option (1-3)
mk_choice(c) ==
    /\ pc[c] = "mk_choice"
    /\ \/ /\ Begin(c, CallListModels([BlankLoc EXCEPT !.op = "update"]),
                   "lm_iter", "au_input")
       \/ /\ Begin(c, CallListModels([BlankLoc EXCEPT !.op = "remove"]),
                   "lm_iter", "rm_input")
       \/ /\ Goto(c, "mm_menu")
          /\ Locals(c, BlankLoc)
          /\ UNCHANGED <<file, env, lock, active, menu, stack, obs, svars>>

\* add_update_api_key or remove_api_key has returned to manage_api_keys
mk_back(c) ==
    /\ pc[c] = "done" /\ c = Main
    /\ Goto(c, "mk_loop")
    /\ UNCHANGED <<file, env, lock, active, menu, stack, loc, obs, svars>>

\* KeyboardInterrupt is raised in an input() of the main thread, or input()
\* raises an error: the except clauses of main_menu call cleanup (the error
\* of the question about another task is caught by the task loop instead)
mm_interrupt(c) ==
    /\ pc[c] \in InputPoints
    /\ \/ MainCleanup(c, "KeyboardInterrupt")
       \/ /\ pc[c] # "mm_ran"
          /\ MainCleanup(c, "Error")
    /\ UNCHANGED <<file, env, lock, active, menu, obs,
                   browser, context, init_lock, thread>>

\* the task of main_menu is cancelled while it is suspended in an await:
\* CancelledError is neither a KeyboardInterrupt nor an Exception, so it
\* leaves main_menu through every with and try on the way
mm_cancel(c) ==
    /\ c = Main /\ pc[c] \in AwaitPoints
    /\ Locals(c, [loc[c] EXCEPT !.outcome = "CancelledError"])
    /\ init_lock' = IF init_lock = c THEN Free ELSE init_lock
    /\ Goto(c, "mm_returned")
    /\ stack' = [stack EXCEPT ![c] = <<>>]
    /\ UNCHANGED <<file, env, lock, active, menu, obs,
                   browser, context, thread, sloc, ses>>

main_menu(c) ==
    \/ mm_gradio(c)
    \/ mm_menu(c)
    \/ mm_listed(c)
    \/ mm_task(c)
    \/ mm_ran(c)
    \/ mm_exit(c)
    \/ mk_loop(c)
    \/ mk_choice(c)
    \/ mk_back(c)
    \/ mm_interrupt(c)
    \/ mm_cancel(c)

\* the keys typed in manage_api_keys
MainKeys == {GoogleNew, BadKey}

\* main() runs main_menu on the main thread; the other callers are handlers
\* of the background interface
InitMain ==
    /\ file \in {NoKeys, [NoKeys EXCEPT !["GOOGLE_API_KEY"] = GoogleOld]}
    /\ env = file
    /\ lock = Free
    /\ pc = [c \in Callers |-> IF c = Main THEN "mm_gradio" ELSE "idle"]
    /\ stack = [c \in Callers |-> <<>>]
    /\ loc = [c \in Callers |-> BlankLoc]
    /\ obs = [c \in Callers |-> BlankObs]
    /\ InitSession
    /\ active = {Main}
    /\ menu = [ids |-> {"1", "9"}, keys |-> MainKeys]
    /\ thread = OwnThreads

\* main_menu; meanwhile a handler of the background interface may clear a
\* key
NextMain ==
    \/ main_menu(Main)
    \/ _update_env_safely(Main)
    \/ verify_api_key(Main)
    \/ list_models(Main)
    \/ add_update_api_key(Main)
    \/ _revert_key_safely(Main)
    \/ remove_api_key(Main)
    \/ initialize(Main)
    \/ cleanup(Main)
    \/ run_task(Main)
    \/ \E c \in Callers \ {Main} :
        \/ StartClear(c)
        \/ _update_env_safely(c)
        \/ Finish(c)

SpecMain == InitMain /\ [][NextMain]_vars

(***************************************************************************)
(* Vocabulary of the properties                                            *)
(***************************************************************************)

\* the format rule of each provider, as the properties speak of it
isValidFormat(providerName, value) ==
    /\ value # None
    /\ Len(value) > 0
    /\ \/ providerName = "Google" /\ StartsWith(value, GooglePrefix)
       \/ providerName = "OpenAI" /\ StartsWith(value, OpenAIPrefix)
       \/ /\ providerName = "Anthropic"
          /\ Len(value) = AnthropicKeyLen
          /\ \A i \in 1..Len(value) : value[i] \in Alnum

\* get(key(P)): the stored value of provider P's key
Stored(model_id) == env[MODELS[model_id].key_env]

\* the handler of c has returned
Returned(c, op) == pc[c] = "done" /\ loc[c].op = op

\* add_update_api_key of c got as far as the verification, which failed
VerifyFailed(c) == Returned(c, "update") /\ loc[c].outcome = "RolledBack"

(***************************************************************************)
(* C1  Rollback invariant: when an update of provider P is invoked while   *)
(* the stored value is old and the verification fails, then on return the  *)
(* stored value is old if old is non-empty and format-valid for P, else    *)
(* the empty string; it is not the new value (unless old is that value).   *)
(***************************************************************************)
C1_RollbackInvariant ==
    \A c \in Callers :
        VerifyFailed(c) =>
            LET P == loc[c].model_id
                old == loc[c].current_key
                target == IF isValidFormat(MODELS[P].provider, old)
                          THEN old ELSE Empty
            IN  /\ Stored(P) = target
                /\ loc[c].new_key # target => Stored(P) # loc[c].new_key

\* what does hold: the rollback restores the value when its write succeeds
C1_RollbackWhenWritten ==
    \A c \in Callers :
        (VerifyFailed(c) /\ loc[c].ue_ret = "True") =>
            LET P == loc[c].model_id
                old == loc[c].current_key
            IN  Stored(P) = IF isValidFormat(MODELS[P].provider, old)
                            THEN old ELSE Empty

(***************************************************************************)
(* C2  An update whose provider id is unknown, or whose new value is       *)
(* non-empty and fails the provider's format check, is rejected before any *)
(* store write: from the reading of its inputs on it calls                 *)
(* _update_env_safely never and sends no probe (the probes of the update   *)
(* are those of the status listing it opened with), and every key's stored *)
(* value, in the file and in the environment, is as before the update.     *)
(***************************************************************************)
Rejected(c) ==
    /\ Returned(c, "update")
    /\ \/ loc[c].model_id \notin ModelIds
       \/ /\ loc[c].new_key # None
          /\ loc[c].new_key # Empty
          /\ ~isValidFormat(MODELS[loc[c].model_id].provider, loc[c].new_key)

C2_RejectedBeforeWrite ==
    \A c \in Callers :
        Rejected(c) =>
            /\ obs[c].nwrites = 0
            /\ obs[c].nprobes = obs[c].nlisting
            /\ env = obs[c].pre_env
            /\ file = obs[c].pre_file

\* a badly formed key was typed for a provider whose stored key the listing
\* had just probed
C2_Witness ==
    \E c \in Callers :
        /\ Rejected(c)
        /\ loc[c].new_key = BadKey
        /\ loc[c].outcome = "InvalidFormat"
        /\ obs[c].nlisting > 0

(***************************************************************************)
(* C5  Commit: when an update of provider P supplies a format-valid new    *)
(* value, the store write succeeds and verify_api_key reports success,     *)
(* then no rollback write is made, the stored value of P's key is the new  *)
(* value when the update returns, and check_api_key(P) is true.            *)
(***************************************************************************)
VerifiedUpdate(c) ==
    /\ Returned(c, "update")
    /\ loc[c].model_id \in ModelIds
    /\ isValidFormat(MODELS[loc[c].model_id].provider, loc[c].new_key)
    /\ loc[c].vret = "True"

C5_Commit ==
    \A c \in Callers :
        VerifiedUpdate(c) =>
            /\ loc[c].outcome = "Committed"
            /\ obs[c].nwrites = 1
            /\ Stored(loc[c].model_id) = loc[c].new_key
            /\ check_api_key(env, loc[c].model_id)

\* scenario A: nothing stored, a well-formed key, the probe answers OK
C5_Witness ==
    \E c \in Callers :
        /\ VerifiedUpdate(c)
        /\ loc[c].model_id = "1"
        /\ obs[c].pre_env = NoKeys
        /\ Stored("1") = GoogleNew

(***************************************************************************)
(* C6  Persistence failure: when the store write of an update fails        *)
(* (_update_env_safely returns False) the update reports failure, sends no *)
(* probe, makes no rollback write, and leaves no partial effect: the key's *)
(* value in the file and in the environment is what it was before.         *)
(***************************************************************************)
WriteFailed(c) ==
    /\ Returned(c, "update")
    /\ obs[c].nwrites = 1
    /\ loc[c].ue_ret = "False"

C6_NoPartialEffect ==
    \A c \in Callers :
        WriteFailed(c) =>
            LET k == MODELS[loc[c].model_id].key_env
            IN  /\ loc[c].outcome = "PersistFailed"
                /\ obs[c].nprobes = obs[c].nlisting
                /\ file[k] = obs[c].pre_file[k]
                /\ env[k] = obs[c].pre_env[k]

\* what does hold: the failure is reported, nothing is probed or rolled
\* back, and the environment keeps the old value
C6_FailureReported ==
    \A c \in Callers :
        WriteFailed(c) =>
            LET k == MODELS[loc[c].model_id].key_env
            IN  /\ loc[c].outcome = "PersistFailed"
                /\ obs[c].nprobes = obs[c].nlisting
                /\ env[k] = obs[c].pre_env[k]

(***************************************************************************)
(* C7  Round trip, as first stated: a successful _update_env_safely(k, v)  *)
(* followed, with no write to k in between, by a read of k returns         *)
(* exactly v, for every v.                                                 *)
(***************************************************************************)
\* a call of _update_env_safely by c has just returned to its caller
JustSet(c) ==
    /\ \/ pc[c] \in {"au_written", "rm_written", "au_reverted"}
       \/ Returned(c, "set")
    /\ loc[c].ue_ret = "True"

C7_RoundTripExact ==
    \A c \in Callers : JustSet(c) => env[loc[c].key_env] = loc[c].value

(***************************************************************************)
(* C7, amended: the read returns v without its leading and trailing        *)
(* whitespace, which is exactly v (the empty string included) when v       *)
(* neither begins nor ends with whitespace.                                *)
(***************************************************************************)
NoPadding(v) ==
    Len(v) = 0 \/ (v[1] \notin Whitespace /\ v[Len(v)] \notin Whitespace)

\* w is v with whitespace, and nothing else, taken from both ends
IsStripped(w, v) ==
    /\ NoPadding(w)
    /\ \E i \in 1..(Len(v) + 1), j \in 0..Len(v) :
        /\ w = SubSeq(v, i, j)
        /\ \A n \in 1..Len(v) : (n < i \/ n > j) => v[n] \in Whitespace

C7_RoundTripStripped ==
    \A c \in Callers :
        JustSet(c) =>
            /\ IsStripped(env[loc[c].key_env], loc[c].value)
            /\ NoPadding(loc[c].value) =>
                   env[loc[c].key_env] = loc[c].value

\* a padded value was written and read back without its padding
C7_Witness ==
    \E c \in Callers :
        /\ JustSet(c)
        /\ Returned(c, "set")
        /\ loc[c].value = PaddedGoogleNew
        /\ env[loc[c].key_env] = GoogleNew

(***************************************************************************)
(* C8  Removal, as first stated: remove_api_key of a known provider leaves *)
(* the store unchanged when the confirmation is refused; when it is given  *)
(* the stored value of the provider's key becomes the empty string and the *)
(* stored values of all other keys are unchanged.                          *)
(***************************************************************************)
Refused(c) ==
    /\ Returned(c, "remove")
    /\ loc[c].model_id \in ModelIds
    /\ loc[c].confirm = "no"

Confirmed(c) ==
    /\ Returned(c, "remove")
    /\ loc[c].model_id \in ModelIds
    /\ loc[c].confirm = "yes"

C8_RemovalAsStated ==
    \A c \in Callers :
        /\ Refused(c) => (env = obs[c].pre_env /\ file = obs[c].pre_file)
        /\ Confirmed(c) =>
            LET k == MODELS[loc[c].model_id].key_env
            IN  /\ env[k] = Empty
                /\ \A o \in KeyEnvs \ {k} :
                       /\ env[o] = obs[c].pre_env[o]
                       /\ file[o] = obs[c].pre_file[o]

(***************************************************************************)
(* C8, amended: with the confirmation refused the store is unchanged.      *)
(* With it given and the store write succeeding, the key's value becomes   *)
(* the empty string in the file and in the environment, every other key's  *)
(* file entry is unchanged, and every other key's environment value is its *)
(* file entry where the file has one and is otherwise unchanged.  With it  *)
(* given and the write failing, the failure is reported and the key's      *)
(* environment value is unchanged.                                         *)
(***************************************************************************)
C8_Removal ==
    \A c \in Callers :
        /\ Refused(c) => (env = obs[c].pre_env /\ file = obs[c].pre_file)
        /\ (Confirmed(c) /\ loc[c].ue_ret = "True") =>
            LET k == MODELS[loc[c].model_id].key_env
            IN  /\ loc[c].outcome = "Removed"
                /\ env[k] = Empty
                /\ file[k] = Empty
                /\ \A o \in KeyEnvs \ {k} :
                       /\ file[o] = obs[c].pre_file[o]
                       /\ env[o] = IF file[o] # None THEN file[o]
                                   ELSE obs[c].pre_env[o]
        /\ (Confirmed(c) /\ loc[c].ue_ret = "False") =>
            LET k == MODELS[loc[c].model_id].key_env
            IN  /\ loc[c].outcome = "RemoveFailed"
                /\ env[k] = obs[c].pre_env[k]

\* a confirmed removal that also refreshed another key's environment value
C8_Witness ==
    \E c \in Callers :
        /\ Confirmed(c)
        /\ loc[c].ue_ret = "True"
        /\ Stored(loc[c].model_id) = Empty
        /\ \E o \in KeyEnvs : env[o] # obs[c].pre_env[o] /\ o # loc[c].key_env

(***************************************************************************)
(* C9  verify_api_key fails fast: with the provider's stored secret absent *)
(* or empty it returns (False, no key found), with it present but badly    *)
(* formed it returns (False, format error); either way no client is        *)
(* constructed and no probe request is sent.                               *)
(***************************************************************************)
\* verify_api_key(vid) of c has returned and its result is not yet consumed
Verified(c) == loc[c].vid # "-" /\ loc[c].vret # "-"

C9_FailFast ==
    \A c \in Callers :
        (Verified(c) /\ loc[c].vid \in ModelIds) =>
            LET secret == loc[c].api_key
                provider == MODELS[loc[c].vid].provider
            IN  /\ (secret = None \/ secret = Empty) =>
                    /\ loc[c].vret = "False"
                    /\ loc[c].message = "NoKey"
                    /\ loc[c].nconstruct = 0
                    /\ loc[c].nprobe = 0
                /\ (secret # None /\ secret # Empty
                        /\ ~isValidFormat(provider, secret)) =>
                    /\ loc[c].vret = "False"
                    /\ loc[c].message = "BadFormat"
                    /\ loc[c].nconstruct = 0
                    /\ loc[c].nprobe = 0

\* a stored key of the wrong format was refused without a probe
C9_Witness ==
    \E c \in Callers :
        /\ Verified(c)
        /\ loc[c].api_key = BadKey
        /\ loc[c].message = "BadFormat"
        /\ obs[c].nprobes = 0

(***************************************************************************)
(* C10  verify_api_key never propagates an error: for every provider id    *)
(* and every outcome of the client construction and of the probe it        *)
(* returns a (bool, message) pair, and the bool is True only if the probe  *)
(* returned a response whose content contains the expected token.          *)
(***************************************************************************)
HasToken(content) ==
    /\ content # None
    /\ \E i \in 1..Len(content) :
        /\ i + 1 <= Len(content)
        /\ content[i] = "O"
        /\ content[i + 1] = "K"

C10_NeverRaises ==
    \A c \in Callers :
        \* once control has left verify_api_key a pair has been returned
        /\ (loc[c].vid # "-" /\ pc[c] \notin {"vk_start", "vk_wait"}) =>
            /\ loc[c].vret \in {"True", "False"}
            /\ loc[c].message # "-"
        /\ loc[c].vret = "True" =>
            /\ loc[c].nprobe = 1
            /\ HasToken(loc[c].resp)

\* every way of failing was met: unknown id, construction error, request
\* error; here the request raised
C10_Witness ==
    \E c \in Callers :
        /\ Verified(c)
        /\ loc[c].message = "RequestFailed"
        /\ loc[c].vret = "False"

(***************************************************************************)
(* C3  Serialization, as first stated: when two or more concurrent updates *)
(* of the same key have all finished, the stored value of the key is       *)
(* exactly one of the new values those updates set out to store.           *)
(***************************************************************************)
AllDone == \A c \in Callers : pc[c] = "done"

\* the updates of model id that got as far as writing
Writers(id) ==
    {c \in Callers : /\ Returned(c, "update")
                     /\ loc[c].model_id = id
                     /\ obs[c].nwrites >= 1}

C3_FinalIsNewValue ==
    \A id \in ModelIds :
        (AllDone /\ Cardinality(Writers(id)) >= 2) =>
            Stored(id) \in {loc[c].new_key : c \in Writers(id)}

(***************************************************************************)
(* C3, amended: when two or more concurrent updates of the same key have   *)
(* all finished, the stored value of the key (in the file and in the       *)
(* environment) is, whole, the value the key had when one of them was      *)
(* invoked or one of the values they handed to _update_env_safely: a new   *)
(* value, or, after a failed verification, the snapshot taken of the key   *)
(* if that is format-valid and the empty string if it is not.              *)
(***************************************************************************)
HandedToStore(id) ==
    {loc[c].new_key : c \in Writers(id)}
    \cup {IF isValidFormat(MODELS[id].provider, loc[c].current_key)
          THEN loc[c].current_key ELSE Empty :
              c \in {w \in Writers(id) : obs[w].nwrites = 2}}

C3_FinalIsWrittenValue ==
    \A id \in ModelIds :
        (AllDone /\ Cardinality(Writers(id)) >= 2) =>
            LET k == MODELS[id].key_env
            IN  /\ env[k] \in HandedToStore(id)
                               \cup {obs[c].pre_env[k] : c \in Writers(id)}
                /\ file[k] \in HandedToStore(id)
                               \cup {obs[c].pre_file[k] : c \in Writers(id)}

\* two updates of the same key with different new values both failed their
\* verification and the old key is the one stored
C3_Witness ==
    /\ AllDone
    /\ Cardinality(Writers("1")) >= 2
    /\ \E c, d \in Writers("1") : loc[c].new_key # loc[d].new_key
    /\ \A c \in Writers("1") : loc[c].outcome = "RolledBack"
    /\ Stored("1") \notin {loc[c].new_key : c \in Writers("1")}

(***************************************************************************)
(* C4  For a single key the updates are strictly serialized: no two        *)
(* _update_env_safely calls interleave their read-modify-write (the file   *)
(* write and environment refresh of one are both over before those of      *)
(* another begin), and a reader never finds the file and the environment   *)
(* holding different values for the key: outside a call's                  *)
(* read-modify-write the two agree.                                        *)
(***************************************************************************)
InReadModifyWrite(c) ==
    pc[c] \in {"ue_read", "ue_write", "ue_load", "ue_release"}

C4_MutualExclusion ==
    \A c, d \in Callers :
        (InReadModifyWrite(c) /\ InReadModifyWrite(d)) => c = d

C4_SerializedAndConsistent ==
    /\ C4_MutualExclusion
    /\ (\A c \in Callers : ~InReadModifyWrite(c)) =>
           \A k \in KeyEnvs : file[k] = env[k]

(***************************************************************************)
(* Vocabulary of the session's properties                                  *)
(***************************************************************************)

\* the session was Ready when the call of c began
ReadyAtStart(c) == sloc[c].b0 # NoHandle /\ sloc[c].c0 # NoHandle

\* the call of c has returned or raised
Ended(c, op) == pc[c] = "done" /\ sloc[c].op = op

\* the initialize of c, called directly or by run_task, has returned
\* without raising
Initialized(c) ==
    \/ Ended(c, "initialize") /\ sloc[c].exc = "-"
    \/ sloc[c].op = "run_task" /\ pc[c] = "rt_inited" /\ sloc[c].exc = "-"
    \/ sloc[c].agent = "created"

\* no cleanup was running when the call of c began and none began since
NoCleanupSince(c) == ~sloc[c].busy0 /\ ses.ncleanup = sloc[c].k0

\* no other call ran beside the call of c
Alone(c) == sloc[c].alone0 /\ ses.ncalls = sloc[c].n0 + 1

(***************************************************************************)
(* C11  Idempotent initialisation: over initialize and run_task calls on   *)
(* one session with no cleanup, the browser and the context are each       *)
(* constructed at most once, and exactly once as soon as an initialize has *)
(* returned; a call begun on the Ready session constructs nothing, and     *)
(* every run_task hands the same first browser and context to its agent.   *)
(***************************************************************************)
C11_IdempotentInit ==
    ses.ncleanup = 0 =>
        /\ ses.nbrowser <= 1
        /\ ses.ncontext <= 1
        /\ \A c \in Callers :
            /\ Initialized(c) =>
                /\ ses.nbrowser = 1 /\ ses.ncontext = 1
                /\ browser = 1 /\ context = 1
            /\ ReadyAtStart(c) => sloc[c].nbuilt = 0
            /\ sloc[c].agent = "created" =>
                (sloc[c].abrowser = 1 /\ sloc[c].acontext = 1)

\* a run_task begun on the session an earlier call had made Ready ran its
\* agent on the same handles
C11_Witness ==
    \E c \in Callers :
        /\ ses.ncleanup = 0
        /\ Ended(c, "run_task")
        /\ ReadyAtStart(c)
        /\ sloc[c].ran = "True"
        /\ sloc[c].abrowser = 1 /\ sloc[c].acontext = 1
        /\ ses.ncalls >= 2

(***************************************************************************)
(* C12  Concurrent initialisation: the initialization lock admits at most  *)
(* one caller into the construction section at a time, and when callers    *)
(* call initialize concurrently on the uninitialised session, one browser  *)
(* and one context are constructed in total, whatever the interleaving.    *)
(***************************************************************************)
InConstruction(c) ==
    pc[c] \in {"in_check", "in_browser", "in_context", "in_ctx_wait",
               "in_release"}

C12_SingleConstruction ==
    /\ \A c, d \in Callers :
        (InConstruction(c) /\ InConstruction(d)) => c = d
    /\ \A c \in Callers : InConstruction(c) => init_lock = c
    /\ (/\ ses.ncleanup = 0
        /\ \A c \in Callers : Ended(c, "initialize") /\ sloc[c].exc = "-") =>
           /\ ses.nbrowser = 1
           /\ ses.ncontext = 1
           /\ ses.ncalls = NumCallers =>
                  Cardinality({c \in Callers : sloc[c].nbuilt > 0}) = 1

\* two initialize calls that both began on the uninitialised session have
\* both returned
C12_Witness ==
    /\ ses.ncleanup = 0
    /\ ses.ncalls = NumCallers
    /\ \A c \in Callers :
        /\ Ended(c, "initialize")
        /\ sloc[c].exc = "-"
        /\ sloc[c].b0 = NoHandle /\ sloc[c].c0 = NoHandle
    /\ ses.nbrowser = 1 /\ ses.ncontext = 1

(***************************************************************************)
(* C13  Initialisation failure: when constructing the browser or the       *)
(* context raises during initialize, the error reaches the caller and the  *)
(* session is left Uninitialized: both handles are null afterwards.        *)
(***************************************************************************)
InitFailed(c) ==
    /\ Ended(c, "initialize")
    /\ sloc[c].exc \in {"BrowserError", "ContextError"}
    /\ sloc[c].b0 = NoHandle /\ sloc[c].c0 = NoHandle
    /\ Alone(c)

C13_FailureLeavesUninitialized ==
    \A c \in Callers :
        InitFailed(c) => (browser = NoHandle /\ context = NoHandle)

\* what does hold: the error reaches the caller, the lock is released and
\* no context is kept
C13_FailurePropagated ==
    \A c \in Callers :
        InitFailed(c) => (init_lock = Free /\ context = NoHandle)

(***************************************************************************)
(* C14  Shutdown: cleanup closes the context and then the browser, each    *)
(* close guarded on its own, so that the browser close is attempted even   *)
(* when the context close fails; and both handles are null after cleanup   *)
(* returns, whether or not a close failed.                                 *)
(***************************************************************************)
\* a cleanup of c has returned, and no other call ran beside it
CleanedUp(c) == Ended(c, "cleanup") /\ Alone(c)

C14_ShutdownClosesBoth ==
    \A c \in Callers :
        CleanedUp(c) =>
            /\ browser = NoHandle
            /\ context = NoHandle
            /\ ReadyAtStart(c) => sloc[c].tried = <<"context", "browser">>

\* what does hold: when no close fails both handles end null, context
\* closed first
C14_ShutdownWhenNoCloseFails ==
    \A c \in Callers :
        (CleanedUp(c) /\ sloc[c].caught = "-") =>
            /\ browser = NoHandle
            /\ context = NoHandle
            /\ ReadyAtStart(c) => sloc[c].tried = <<"context", "browser">>

(***************************************************************************)
(* C15  A task failure leaves the session as it was: when run_task is      *)
(* called on the Ready session and the credential lookup or the agent run  *)
(* raises, the error reaches the caller, run_task closes nothing, and the  *)
(* browser and context are the same non-null handles afterwards, so that   *)
(* the next run_task constructs nothing.                                   *)
(***************************************************************************)
TaskFailed(c) ==
    /\ Ended(c, "run_task")
    /\ ReadyAtStart(c)
    /\ sloc[c].ran # "True"

C15_TaskFailureKeepsSession ==
    \A c \in Callers :
        /\ TaskFailed(c) =>
            /\ sloc[c].exc # "-"
            /\ sloc[c].tried = <<>>
            /\ NoCleanupSince(c) =>
                /\ browser = sloc[c].b0
                /\ context = sloc[c].c0
        /\ (sloc[c].op = "run_task" /\ ReadyAtStart(c) /\ NoCleanupSince(c))
               => sloc[c].nbuilt = 0

\* the agent run raised on the Ready session, and so did a credential
\* lookup
C15_Witness ==
    \E c \in Callers :
        /\ TaskFailed(c)
        /\ sloc[c].exc = "AgentError"
        /\ NoCleanupSince(c)
        /\ browser = sloc[c].b0 /\ context = sloc[c].c0

(***************************************************************************)
(* C17  The store lock guards only the local write: while the probe of an  *)
(* update is in flight the update does not hold the store lock, which      *)
(* _update_env_safely has released on every way out, so that an update of  *)
(* another key can take the lock and finish its write meanwhile.           *)
(***************************************************************************)
ProbeInFlight(c) == pc[c] = "vk_wait"

C17_LockOnlyForWrite ==
    /\ \A c \in Callers : ProbeInFlight(c) => lock # c
    /\ \A c \in Callers : lock = c => InReadModifyWrite(c)
    /\ \A c, d \in Callers :
        (ProbeInFlight(c) /\ pc[d] = "ue_acquire" /\ lock = Free) =>
            ENABLED ue_acquire(d)

\* while the probe of one update is pending, an update of another key, begun
\* on the file the first had written, holds the lock with its write done
C17_Witness ==
    \E c, d \in Callers :
        /\ ProbeInFlight(c)
        /\ Head(stack[c]) = "au_verified"
        /\ loc[d].key_env # loc[c].key_env
        /\ lock = d
        /\ pc[d] = "ue_release"
        /\ loc[d].ue_ret = "True"
        /\ loc[d].fsnap[loc[c].key_env] = loc[c].new_key

(***************************************************************************)
(* C18  Status query: list_models returns a mapping with one boolean for   *)
(* every registered provider; the entry is False, with no verify_api_key   *)
(* call, for a provider whose stored secret is absent or empty, and        *)
(* otherwise it is the result of a verify_api_key call made during the     *)
(* same invocation; and list_models changes no stored value.               *)
(***************************************************************************)
\* list_models of c has just returned its mapping
Listed(c) ==
    \/ Returned(c, "list")
    \/ pc[c] \in {"au_input", "rm_input"}

C18_StatusQuery ==
    \A c \in Callers :
        Listed(c) =>
            /\ DOMAIN loc[c].statuses = DOMAIN MODELS
            /\ \A id \in DOMAIN MODELS :
                /\ loc[c].statuses[id] \in {"True", "False"}
                /\ (Stored(id) = None \/ Stored(id) = Empty) =>
                    /\ loc[c].statuses[id] = "False"
                    /\ loc[c].results[id] = "-"
                /\ (Stored(id) # None /\ Stored(id) # Empty) =>
                    /\ loc[c].results[id] # "-"
                    /\ loc[c].statuses[id] = loc[c].results[id]
            /\ env = obs[c].pre_env
            /\ file = obs[c].pre_file

\* a listing that found one provider usable by a probe, one with a key that
\* failed its verification and one with no key
C18_Witness ==
    \E c \in Callers :
        /\ Returned(c, "list")
        /\ \E id \in ModelIds : loc[c].statuses[id] = "True"
        /\ \E id \in ModelIds :
            Stored(id) # None /\ loc[c].statuses[id] = "False"
        /\ \E id \in ModelIds :
            Stored(id) = None /\ loc[c].statuses[id] = "False"

(***************************************************************************)
(* C20  Secrets are never displayed in full: for every non-empty stored    *)
(* secret the masked form shown for it leaves at least one character of    *)
(* the secret out of the displayed prefix and suffix.                      *)
(***************************************************************************)
\* add_update_api_key of c has displayed the current key, which is set
Displayed(c) ==
    /\ loc[c].op = "update"
    /\ loc[c].shown # None
    /\ loc[c].current_key # None
    /\ Len(loc[c].current_key) > 0

\* how many characters of the secret the display holds
ShownChars(c) == Len(loc[c].shown) - Len(Ellipsis)

C20_NeverShownInFull ==
    \A c \in Callers :
        Displayed(c) => ShownChars(c) < Len(loc[c].current_key)

\* what does hold: a secret of more than twice MaskLen characters is shown
\* with its middle left out
C20_LongSecretsMasked ==
    \A c \in Callers :
        (Displayed(c) /\ Len(loc[c].current_key) > 2 * MaskLen) =>
            /\ ShownChars(c) < Len(loc[c].current_key)
            /\ loc[c].shown =
                   SubSeq(loc[c].current_key, 1, MaskLen) \o Ellipsis \o
                   SubSeq(loc[c].current_key,
                          Len(loc[c].current_key) - MaskLen + 1,
                          Len(loc[c].current_key))

(***************************************************************************)
(* C16  Credential check at call time: every run_task call checks the      *)
(* provider's credential as the store holds it at that call.  When the     *)
(* secret is then absent, empty or of an invalid format, run_task fails    *)
(* and neither creates nor runs the agent, also when the status query      *)
(* made before reported the provider usable and the key was changed or     *)
(* removed since.                                                          *)
(***************************************************************************)
\* the secret that run_task of c read at its call is usable
UsableAtCall(c) ==
    /\ sloc[c].model_id \in ModelIds
    /\ isValidFormat(MODELS[sloc[c].model_id].provider, sloc[c].api_key)

\* run_task of c has returned to main_menu or raised
TaskEnded(c) == pc[c] = "mm_ran" /\ sloc[c].op = "run_task"

C16_CheckedAtCallTime ==
    \A c \in Callers :
        sloc[c].op = "run_task" =>
            /\ sloc[c].agent = "created" => UsableAtCall(c)
            /\ sloc[c].ran = "True" => sloc[c].agent = "created"
            /\ (TaskEnded(c) /\ ~UsableAtCall(c)) =>
                   /\ sloc[c].exc # "-"
                   /\ sloc[c].agent = "-"
                   /\ sloc[c].ran # "True"

\* the status query reported the provider usable, the key was removed
\* before the task was run, and run_task failed on the missing key
C16_Witness ==
    \E c \in Callers :
        /\ TaskEnded(c)
        /\ sloc[c].model_id \in ModelIds
        /\ loc[c].statuses[sloc[c].model_id] = "True"
        /\ sloc[c].api_key = Empty
        /\ sloc[c].exc = "NoKey"
        /\ sloc[c].agent = "-"

(***************************************************************************)
(* C19  Guaranteed teardown: on every path by which main_menu ends, the    *)
(* exit action, an interrupt or cancellation while a task or a menu action *)
(* is in progress, or an unexpected error, cleanup of the session is       *)
(* attempted before main_menu returns.                                     *)
(***************************************************************************)
\* main_menu has returned or has been left by an exception
MainEnded == pc[Main] = "mm_returned"

C19_TeardownAttempted == MainEnded => ses.ncleanup >= 1

\* what does hold: cleanup is attempted on every end but a cancellation
\* that reaches main_menu while it is suspended in an await
C19_TeardownUnlessCancelled ==
    (MainEnded /\ loc[Main].outcome # "CancelledError") => ses.ncleanup >= 1

(***************************************************************************)
(* C21  cleanup is best-effort and idempotent: it never propagates an      *)
(* exception to its caller, whichever close call fails, and a cleanup      *)
(* called on a session whose browser and context are both null makes no    *)
(* close call and leaves the session as it was.                            *)
(***************************************************************************)
\* cleanup of c was called with both handles null and no call beside it
CleanedUpEmpty(c) ==
    /\ CleanedUp(c)
    /\ sloc[c].b0 = NoHandle
    /\ sloc[c].c0 = NoHandle

C21_CleanupNeverRaises ==
    \A c \in Callers :
        /\ sloc[c].op = "cleanup" => sloc[c].exc = "-"
        /\ CleanedUpEmpty(c) =>
               /\ sloc[c].tried = <<>>
               /\ sloc[c].caught = "-"
               /\ browser = NoHandle
               /\ context = NoHandle

\* a cleanup whose close of the context failed has returned to its caller
C21_Witness ==
    \E c \in Callers :
        /\ Ended(c, "cleanup")
        /\ sloc[c].tried = <<"context">>
        /\ sloc[c].caught = "CloseError"
        /\ sloc[c].exc = "-"

\* a cleanup of the session with both handles null has returned
C21_EmptyReached == \E c \in Callers : CleanedUpEmpty(c)

(***************************************************************************)
(* C22  Under any interleaving of two or more concurrent updates of the    *)
(* same key, each taking a snapshot of the current value, writing its new  *)
(* value, probing, and going back to its snapshot when the probe fails,    *)
(* the value stored once all of them have finished is never a value whose  *)
(* own verification probe failed.                                          *)
(***************************************************************************)
\* the probe made for the update of c was made with the new value of c and
\* failed
OwnProbeFailed(c) ==
    /\ VerifyFailed(c)
    /\ loc[c].nprobe = 1
    /\ loc[c].api_key = loc[c].new_key
    /\ loc[c].vret = "False"

\* the values of the key of id whose own probe failed, none of them the
\* value another update verified
FailedValues(id) ==
    {loc[c].new_key : c \in {w \in Writers(id) : OwnProbeFailed(w)}}
    \ {loc[c].new_key :
           c \in {w \in Writers(id) : loc[w].outcome = "Committed"}}

C22_NoFailedValueStored ==
    \A id \in ModelIds :
        (AllDone /\ Cardinality(Writers(id)) >= 2) =>
            /\ env[MODELS[id].key_env] \notin FailedValues(id)
            /\ file[MODELS[id].key_env] \notin FailedValues(id)

\* what does hold: a value whose own probe failed is stored at the end only
\* as the snapshot that an update went back to, as the new value of an
\* update that did not get to its own probe, or because the write of the
\* revert failed
C22_FailedValueIsSnapshotOrUnprobed ==
    \A id \in ModelIds :
        (AllDone /\ Cardinality(Writers(id)) >= 2
                 /\ Stored(id) \in FailedValues(id)) =>
            \E c \in Writers(id) :
                \/ /\ VerifyFailed(c)
                   /\ loc[c].current_key = Stored(id)
                \/ /\ loc[c].new_key = Stored(id)
                   /\ loc[c].outcome = "Committed"
                \/ /\ loc[c].new_key = Stored(id)
                   /\ loc[c].outcome = "PersistFailed"
                \/ /\ VerifyFailed(c)
                   /\ loc[c].new_key = Stored(id)
                   /\ loc[c].ue_ret = "False"

\* the case of the claim that is not a matter of equal values or of failed
\* writes: both updates were rolled back, every write succeeded, and the
\* value left is the new value of c, which was not stored when they began
\* and which d took as its snapshot
C22_FailedNewValueLeft ==
    \E c, d \in Writers("1") :
        /\ AllDone
        /\ c # d
        /\ OwnProbeFailed(c) /\ OwnProbeFailed(d)
        /\ Stored("1") = loc[c].new_key
        /\ loc[d].new_key # loc[c].new_key
        /\ loc[c].current_key # loc[c].new_key
        /\ obs[c].pre_env["GOOGLE_API_KEY"] # loc[c].new_key
        /\ obs[d].pre_env["GOOGLE_API_KEY"] # loc[c].new_key
        /\ loc[d].current_key = loc[c].new_key
        /\ loc[c].ue_ret = "True" /\ loc[d].ue_ret = "True"
        /\ file["GOOGLE_API_KEY"] = loc[c].new_key

(***************************************************************************)
(* C23  Concurrent initialisation is deadlock-free: when two tasks of the  *)
(* same event loop call initialize on the uninitialised session and the    *)
(* first is suspended in the creation of the context, holding the          *)
(* initialisation lock, both calls eventually return, under fair           *)
(* scheduling and with a context creation that completes.                  *)
(***************************************************************************)
\* c is suspended in new_context() with the lock, and d, scheduled as
\* threads says, has called initialize and is at the with statement
SecondInitialize(c, d, threads) ==
    /\ c # d
    /\ thread = threads
    /\ pc[c] = "in_ctx_wait" /\ init_lock = c
    /\ sloc[c].op = "initialize" /\ sloc[d].op = "initialize"
    /\ pc[d] = "in_acquire"

C23_BothInitializeReturn ==
    \A c, d \in Callers :
        /\ SecondInitialize(c, d, OneLoop) ~> Ended(c, "initialize")
        /\ SecondInitialize(c, d, OneLoop) ~> Ended(d, "initialize")

\* what does hold: callers on threads of their own both return
C23_BothReturnOnOwnThreads ==
    \A c, d \in Callers :
        /\ SecondInitialize(c, d, OwnThreads) ~> Ended(c, "initialize")
        /\ SecondInitialize(c, d, OwnThreads) ~> Ended(d, "initialize")

\* on one event loop the state of the claim is one that no step leaves: the
\* second call keeps the loop in acquire(), the first is never resumed
C23_StuckForever ==
    \A c, d \in Callers :
        SecondInitialize(c, d, OneLoop) =>
            /\ ~ENABLED initialize(c)
            /\ ~ENABLED initialize(d)

(***************************************************************************)
(* C24  In every reachable state of the session, those reached by a        *)
(* cleanup that runs while an initialize is suspended in the creation of   *)
(* the context included, a non-null context comes with a non-null browser  *)
(* that has not been closed: the session never holds a context whose       *)
(* browser was closed or dropped.                                          *)
(***************************************************************************)
\* the browser handle is set and close() has not succeeded on it
BrowserLive(b) == b # NoHandle /\ <<"browser", b>> \notin ses.closed

C24_ContextHasLiveBrowser ==
    context # NoHandle =>
        /\ BrowserLive(browser)
        /\ BrowserLive(ses.owner[context])
        /\ ses.owner[context] = browser

\* what does hold: as long as no cleanup has been called the context is
\* the context of the session's live browser
C24_HoldsWithoutCleanup ==
    (context # NoHandle /\ ses.ncleanup = 0) =>
        /\ BrowserLive(browser)
        /\ ses.owner[context] = browser

\* the interleaving of the claim: the context held was created by a browser
\* that a cleanup closed and dropped while initialize was suspended
C24_OrphanContext ==
    /\ context # NoHandle
    /\ browser = NoHandle
    /\ <<"browser", ses.owner[context]>> \in ses.closed

=============================================================================
